---- MODULE Spec2Model ----
(***************************************************************************)
(* State-machine model of src/game.py (Flappy Bird on pygame): the Bird,   *)
(* Pipe, Base and Game classes, as driven by Game.run():                   *)
(*     handle_events()  ->  update()  ->  draw()                           *)
(* One KEYDOWN(space/up) event handled by handle_events() is one Flap*     *)
(* action, one call of update() is one Tick* action.  draw() changes no    *)
(* game state.  A QUIT event ends the process: it is the behaviour that    *)
(* stutters forever from that point on.                                    *)
(*                                                                         *)
(* Fixed point.  The floats of the program are multiples of 0.05 (bird y,  *)
(* velocity: GRAVITY 0.35, JUMP_VELOCITY -7.5) or of 0.5 (pipe and base x: *)
(* PIPE_SPEED 3.5).  The model keeps them as integers:                     *)
(*     bird_y, bird_velocity          in units of 1/20 pixel  (YS)         *)
(*     pipe x, base_x1, base_x2       in units of 1/2 pixel   (XS)         *)
(* Multiples of 0.5 are exact in binary floating point; the sums of 0.35   *)
(* are modelled by their exact rational value.                             *)
(***************************************************************************)
EXTENDS Integers, Sequences, FiniteSets, TLC

YS == 20
XS == 2

\* Window configuration (pixels)
WINDOW_WIDTH    == 400
WINDOW_HEIGHT   == 600
PLAYABLE_HEIGHT == WINDOW_HEIGHT - 100

\* Bird physics
GRAVITY           == 7        \* 0.35 * YS
JUMP_VELOCITY     == -150     \* -7.5 * YS
MAX_DESCENT_SPEED == 160      \* 8 * YS
TILT_VELOCITY     == 5
MAX_UPWARD_TILT   == 25
MAX_DOWNWARD_TILT == -90

\* Pipe configuration
PIPE_GAP      == 150
PIPE_DISTANCE == 225
PIPE_SPEED    == 7            \* 3.5 * XS
PIPE_WIDTH    == 60           \* Pipe.width
MIN_SEGMENT   == 40           \* the 40 of max(40, ...) in Pipe.__init__

\* Bird class attributes
BIRD_WIDTH     == 36
BIRD_HEIGHT    == 26
ANIMATION_TIME == 5
FRAME_COUNT    == 3           \* len(self.frames): angles (-25, 0, 25)

\* Bounds of the exploration (not program constants)
MaxStartTicks == 16  \* updates in Start; the key arrives before the first
                     \* or after the last of them
MaxOverTicks == 1    \* updates in GameOver before the key
FlapEvery    == 4    \* in Playing, a key may arrive every FlapEvery-th tick
LastFlapTick == 80   \* ... and none after this many Playing ticks
NumGaps      == 2    \* number of gap centres random.randint is sampled at
LiveFlapEvery == 17  \* FlapEvery and LastFlapTick of the specification
LiveLastFlap  == 60  \* with fairness
PassFlapEvery == 35  \* the same, of the specification with fairness in
PassLastFlap  == 70  \* which a pipe is followed until it is removed
MaxPipes      == 2   \* pipes of one episode the pipe properties range over
LongFlapEvery == 31  \* FlapEvery and LastFlapTick of the specification of
LongLastFlap  == 450 \* one long episode
MaxPresses    == 2   \* keys handled by one call of handle_events()

Min(a, b) == IF a < b THEN a ELSE b
Max(a, b) == IF a > b THEN a ELSE b
Abs(a)    == IF a < 0 THEN -a ELSE a

\* The history variable ticks stops counting past the last tick before
\* which any specification lets a key arrive
TickCap == Max(LastFlapTick, LongLastFlap) + 1

\* int(v) of a Python float v = n/scale: truncation towards zero, as done
\* by pygame when a float is stored into a Rect coordinate.
Trunc(n, scale) == IF n >= 0 THEN n \div scale ELSE -((-n) \div scale)

VARIABLES
    state,            \* Game.state: "start" | "playing" | "game_over"
    bird_y,           \* Bird.y          (1/20 px)
    bird_velocity,    \* Bird.velocity   (1/20 px per tick)
    bird_tilt,        \* Bird.tilt       (degrees)
    animation_index,  \* Bird.animation_index
    base_x1, base_x2, \* Base.x1, Base.x2 (1/2 px)
    pipes,            \* Game.pipes: sequence of [x, gap_center, passed]
    score,            \* Game.score
    high_score,       \* Game.high_score
    last,             \* history: the operation that produced this state
    ticks,            \* history: update() calls in the current phase (capped)
    npassed,          \* history: pipes marked passed since the last reset()
    hit,              \* history: collision sources that fired in the last tick
    presses           \* history: keys handled since the last update()

vars == <<state, bird_y, bird_velocity, bird_tilt, animation_index,
          base_x1, base_x2, pipes, score, high_score, last, ticks, npassed, hit,
          presses>>

----------------------------------------------------------------------------
\* Bird

BIRD_X  == WINDOW_WIDTH \div 4        \* Bird(WINDOW_WIDTH // 4, ...)
BIRD_Y0 == (WINDOW_HEIGHT \div 2) * YS

\* Bird.move(): the new velocity
BadMoveVelocity(v) == v + GRAVITY
MoveVelocity(v) == Min(v + GRAVITY, MAX_DESCENT_SPEED)

\* Bird.move(): the new tilt, from the new velocity and the old tilt
BadMoveTilt(v, tilt) ==
    IF v < 0 THEN MAX_UPWARD_TILT ELSE tilt - TILT_VELOCITY
MoveTilt(v, tilt) ==
    IF v < 0 THEN MAX_UPWARD_TILT
             ELSE Max(tilt - TILT_VELOCITY, MAX_DOWNWARD_TILT)

\* Bird.update_animation(): the new animation index
BadUpdateAnimation(i) == i + 1
UpdateAnimation(i) == (i + 1) % (ANIMATION_TIME * FRAME_COUNT)

\* Size of Bird.current_surface = pygame.transform.rotate(frame, tilt) for a
\* 36x26 frame: <<int(36|cos t| + 26|sin t|), int(36|sin t| + 26|cos t|)>>,
\* which depends on t only through its distance to the nearest multiple of
\* 180.  Every tilt of the program is a multiple of 5.
RotatedSize(tilt) ==
    LET a == Abs(tilt) % 180
        t == IF a > 90 THEN 180 - a ELSE a
    IN  CASE t = 0  -> <<36, 26>>
          [] t = 5  -> <<38, 29>>
          [] t = 10 -> <<39, 31>>
          [] t = 15 -> <<41, 34>>
          [] t = 20 -> <<42, 36>>
          [] t = 25 -> <<43, 38>>
          [] t = 30 -> <<44, 40>>
          [] t = 35 -> <<44, 41>>
          [] t = 40 -> <<44, 43>>
          [] t = 45 -> <<43, 43>>
          [] t = 50 -> <<43, 44>>
          [] t = 55 -> <<41, 44>>
          [] t = 60 -> <<40, 44>>
          [] t = 65 -> <<38, 43>>
          [] t = 70 -> <<36, 42>>
          [] t = 75 -> <<34, 41>>
          [] t = 80 -> <<31, 39>>
          [] t = 85 -> <<29, 38>>
          [] t = 90 -> <<26, 36>>

\* A pygame Rect as [left, top, w, h]; right = left + w, bottom = top + h.
\* Bird.rect = current_surface.get_rect(center=(x, y))
BirdRect(y, tilt) ==
    LET sz == RotatedSize(tilt)
    IN  [left |-> BIRD_X - (sz[1] \div 2),
         top  |-> Trunc(y, YS) - (sz[2] \div 2),
         w    |-> sz[1],
         h    |-> sz[2]]

----------------------------------------------------------------------------
\* Pipe

\* Pipe.__init__: segment lengths
TopLength(gap_center)    == Max(MIN_SEGMENT, gap_center - PIPE_GAP \div 2)
BottomLength(gap_center) ==
    Max(MIN_SEGMENT, PLAYABLE_HEIGHT - (gap_center + PIPE_GAP \div 2))

NewPipe(x, gap_center) == [x |-> x, gap_center |-> gap_center, passed |-> FALSE]

\* Pipe.top_rect = surface_top.get_rect(midbottom=(x, gap_center - gap//2))
TopRect(p) ==
    LET hgt == TopLength(p.gap_center) + 30
    IN  [left |-> Trunc(p.x, XS) - (PIPE_WIDTH \div 2),
         top  |-> (p.gap_center - PIPE_GAP \div 2) - hgt,
         w    |-> PIPE_WIDTH,
         h    |-> hgt]

\* Pipe.bottom_rect = surface_bottom.get_rect(midtop=(x, gap_center + gap//2))
BottomRect(p) ==
    [left |-> Trunc(p.x, XS) - (PIPE_WIDTH \div 2),
     top  |-> p.gap_center + PIPE_GAP \div 2,
     w    |-> PIPE_WIDTH,
     h    |-> BottomLength(p.gap_center) + 30]

Right(r)  == r.left + r.w
Bottom(r) == r.top + r.h

\* The pixels two rects share, as pairs <<column, row>>
SharedPixels(a, b) ==
    { <<i, j>> : i \in Max(a.left, b.left) .. (Min(Right(a), Right(b)) - 1),
                 j \in Max(a.top, b.top) .. (Min(Bottom(a), Bottom(b)) - 1) }

\* 1000 * cos(d degrees), d a multiple of 5 in 0 .. 90
CosTab(d) ==
    CASE d = 0  -> 1000 [] d = 5  -> 996 [] d = 10 -> 985 [] d = 15 -> 966
      [] d = 20 -> 940  [] d = 25 -> 906 [] d = 30 -> 866 [] d = 35 -> 819
      [] d = 40 -> 766  [] d = 45 -> 707 [] d = 50 -> 643 [] d = 55 -> 574
      [] d = 60 -> 500  [] d = 65 -> 423 [] d = 70 -> 342 [] d = 75 -> 259
      [] d = 80 -> 174  [] d = 85 -> 87  [] d = 90 -> 0
Cos1000(t) ==
    LET a == Abs(t) % 360
    IN  IF a <= 90 THEN CosTab(a)
        ELSE IF a <= 180 THEN -CosTab(180 - a)
        ELSE IF a <= 270 THEN -CosTab(a - 180)
        ELSE CosTab(360 - a)
Sin1000(t) == Cos1000(t - 90)

\* The silhouette of the bird.  create_bird_frames fills an ellipse with
\* semi-axes 18 and 13 about the centre of the 36x26 frame and blits the
\* wing over it; rotate() turns the frame counterclockwise by tilt about its
\* centre, which get_rect(center=...) puts at the centre of Bird.rect.
\* InEllipse says whether the centre of pixel px lies in the ellipse with
\* semi-axes a2/2 and b2/2 turned by tilt about the centre of rect r.
\* Lengths are in half pixels.
InEllipse(px, r, tilt, a2, b2) ==
    LET x == 2 * px[1] + 1 - (2 * r.left + r.w)
        y == 2 * px[2] + 1 - (2 * r.top + r.h)
        u == (x * Cos1000(tilt) - y * Sin1000(tilt) + 500) \div 1000
        v == (x * Sin1000(tilt) + y * Cos1000(tilt) + 500) \div 1000
    IN  (u * b2) * (u * b2) + (v * a2) * (v * a2) <= (a2 * b2) * (a2 * b2)

\* Semi-axes, in half pixels, of an ellipse every pixel of which is opaque
\* in each frame at each tilt (18 and 13 less 1.5 pixels for the rasters of
\* draw.ellipse and rotate), and of one that holds every opaque pixel, the
\* wing included (18 and 13 plus 2.5 pixels).
INNER_A == 33
INNER_B == 23
OUTER_A == 41
OUTER_B == 31

\* Pipe.collide(bird): the set of results the call can have.  The early
\* return on the horizontal extents is as in the code.  The mask overlap
\* that follows is bracketed: create_pipe_surface fills the whole of both
\* pipe surfaces, so the masks overlap for certain when a pixel of the inner
\* ellipse of the bird lies in the rect of a segment, cannot overlap when no
\* pixel of the outer ellipse does, and both results are kept in between.
Collide(p, y, tilt) ==
    LET b   == BirdRect(y, tilt)
        t   == TopRect(p)
        m   == BottomRect(p)
        pts == SharedPixels(b, t) \cup SharedPixels(b, m)
    IN  IF Right(b) < t.left \/ b.left > Right(t)
        THEN {FALSE}
        ELSE IF \E px \in pts : InEllipse(px, b, tilt, INNER_A, INNER_B)
        THEN {TRUE}
        ELSE IF \E px \in pts : InEllipse(px, b, tilt, OUTER_A, OUTER_B)
        THEN {TRUE, FALSE}
        ELSE {FALSE}

\* Game.update(): "pipe.top_rect.right < self.bird.x and not hasattr(pipe, 'passed')"
BadNewlyPassed(p) == Right(TopRect(p)) < BIRD_X
NewlyPassed(p) == Right(TopRect(p)) < BIRD_X /\ ~p.passed

\* Game.update(): "pipe.top_rect.right < -pipe.width"
BadOffScreen(p) == Right(TopRect(p)) < 0
LateOffScreen(p) == Right(TopRect(p)) < -PIPE_WIDTH - WINDOW_WIDTH
OffScreen(p) == Right(TopRect(p)) < -PIPE_WIDTH

\* Pipe.move()
BadPipeMove(p) == p
PipeMove(p) == [p EXCEPT !.x = p.x - PIPE_SPEED]

----------------------------------------------------------------------------
\* Base

HALF_STRIP == ((WINDOW_WIDTH * 2) \div 2) * XS  \* surface.get_width() // 2

\* Base.move(): the new <<x1, x2>>
BadBaseMove(x1, x2) ==
    LET a  == x1 - PIPE_SPEED
        b  == x2 - PIPE_SPEED
        a2 == IF a + HALF_STRIP <= 0 THEN HALF_STRIP ELSE a
        b2 == IF b + HALF_STRIP <= 0 THEN HALF_STRIP ELSE b
    IN  <<a2, b2>>
BaseMove(x1, x2) ==
    LET a  == x1 - PIPE_SPEED
        b  == x2 - PIPE_SPEED
        a2 == IF a + HALF_STRIP <= 0 THEN b + HALF_STRIP ELSE a
        b2 == IF b + HALF_STRIP <= 0 THEN a2 + HALF_STRIP ELSE b
    IN  <<a2, b2>>

----------------------------------------------------------------------------
\* Game

\* Game.spawn_pipe(): the range of random.randint
min_center == PIPE_GAP \div 2 + 60
Bad_max_center == PLAYABLE_HEIGHT - PIPE_GAP \div 2
max_center == PLAYABLE_HEIGHT - PIPE_GAP \div 2 - 60

\* The draws of random.randint(min_center, max_center) that are explored:
\* NumGaps points spread over the range, both ends included.
GapCenters ==
    { min_center + (i * (max_center - min_center)) \div (NumGaps - 1) :
        i \in 0 .. (NumGaps - 1) }

\* Game.spawn_pipe(initial): x of the new pipe
BadSpawnX(initial) == (WINDOW_WIDTH + PIPE_DISTANCE) * XS
SpawnX(initial) == (WINDOW_WIDTH + (IF initial THEN 0 ELSE PIPE_DISTANCE)) * XS

\* Game.update(): "PLAYABLE_HEIGHT - self.bird.height // 2"
Bad_GROUND_Y == PLAYABLE_HEIGHT * YS
GROUND_Y == (PLAYABLE_HEIGHT - BIRD_HEIGHT \div 2) * YS

\* Game.__init__(): high_score = 0, then reset()
Init ==
    /\ state = "start"
    /\ bird_y = BIRD_Y0
    /\ bird_velocity = 0
    /\ bird_tilt = 0
    /\ animation_index = 0
    /\ base_x1 = 0
    /\ base_x2 = HALF_STRIP
    /\ \E g \in GapCenters : pipes = <<NewPipe(SpawnX(TRUE), g)>>
    /\ score = 0
    /\ high_score = 0
    /\ last = "init"
    /\ ticks = 0
    /\ npassed = 0
    /\ hit = {}
    /\ presses = 0

\* Bird.jump(): the new velocity and tilt
BadJump == [velocity |-> JUMP_VELOCITY, tilt |-> 0]
Jump == [velocity |-> JUMP_VELOCITY, tilt |-> MAX_UPWARD_TILT]

\* Game.reset()
BadReset ==
    /\ bird_y' = BIRD_Y0
    /\ bird_velocity' = 0
    /\ bird_tilt' = 0
    /\ animation_index' = 0
    /\ base_x1' = 0
    /\ base_x2' = HALF_STRIP
    /\ \E g \in GapCenters : pipes' = <<NewPipe(SpawnX(TRUE), g)>>
    /\ score' = 0
    /\ state' = "playing"
Reset ==
    /\ bird_y' = BIRD_Y0
    /\ bird_velocity' = 0
    /\ bird_tilt' = 0
    /\ animation_index' = 0
    /\ base_x1' = 0
    /\ base_x2' = HALF_STRIP
    /\ \E g \in GapCenters : pipes' = <<NewPipe(SpawnX(TRUE), g)>>
    /\ score' = 0
    /\ state' = "start"

\* handle_events(), KEYDOWN space/up, state == "start"
FlapStart ==
    /\ state = "start"
    /\ ticks \in {0, MaxStartTicks}
    /\ presses < MaxPresses
    /\ presses' = presses + 1
    /\ state' = "playing"
    /\ bird_velocity' = Jump.velocity
    /\ bird_tilt' = Jump.tilt
    /\ last' = "flap"
    /\ ticks' = 0
    /\ hit' = {}
    /\ UNCHANGED <<bird_y, animation_index, base_x1, base_x2, pipes, score,
                   high_score, npassed>>

\* The Playing ticks before which a key may arrive
KeyTicks(every, upto) == {t \in 0 .. upto : t % every = 0}

\* handle_events(), KEYDOWN space/up, state == "playing"
BadFlapPlayingAt(K) ==
    /\ state = "playing"
    /\ ticks \in K
    /\ presses < MaxPresses
    /\ presses' = presses + 1
    /\ bird_velocity' = bird_velocity + Jump.velocity
    /\ bird_tilt' = Jump.tilt
    /\ last' = "flap"
    /\ hit' = {}
    /\ UNCHANGED <<state, bird_y, animation_index, base_x1, base_x2, pipes,
                   score, high_score, ticks, npassed>>
FlapPlayingAt(K) ==
    /\ state = "playing"
    /\ ticks \in K
    /\ presses < MaxPresses
    /\ presses' = presses + 1
    /\ bird_velocity' = Jump.velocity
    /\ bird_tilt' = Jump.tilt
    /\ last' = "flap"
    /\ hit' = {}
    /\ UNCHANGED <<state, bird_y, animation_index, base_x1, base_x2, pipes,
                   score, high_score, ticks, npassed>>

\* handle_events(), KEYDOWN space/up, state == "game_over"
FlapGameOver ==
    /\ state = "game_over"
    /\ presses < MaxPresses
    /\ presses' = presses + 1
    /\ Reset
    /\ last' = "flap"
    /\ ticks' = 0
    /\ npassed' = 0
    /\ hit' = {}
    /\ UNCHANGED high_score

\* update(), state == "start"
BadTickStart ==
    /\ state = "start"
    /\ ticks < MaxStartTicks
    /\ LET b == BaseMove(base_x1, base_x2)
       IN  base_x1' = b[1] /\ base_x2' = b[2]
    /\ animation_index' = UpdateAnimation(animation_index)
    /\ bird_velocity' = MoveVelocity(bird_velocity)
    /\ bird_y' = bird_y + MoveVelocity(bird_velocity)
    /\ bird_tilt' = MoveTilt(MoveVelocity(bird_velocity), bird_tilt)
    /\ last' = "tick"
    /\ ticks' = ticks + 1
    /\ presses' = 0
    /\ hit' = {}
    /\ UNCHANGED <<state, pipes, score, high_score, npassed>>
TickStart ==
    /\ state = "start"
    /\ ticks < MaxStartTicks
    /\ LET b == BaseMove(base_x1, base_x2)
       IN  base_x1' = b[1] /\ base_x2' = b[2]
    /\ animation_index' = UpdateAnimation(animation_index)
    /\ last' = "tick"
    /\ ticks' = ticks + 1
    /\ presses' = 0
    /\ hit' = {}
    /\ UNCHANGED <<state, bird_y, bird_velocity, bird_tilt, pipes, score,
                   high_score, npassed>>

\* update(), state == "game_over"
BadTickGameOver ==
    /\ state = "game_over"
    /\ ticks < MaxOverTicks
    /\ LET b == BaseMove(base_x1, base_x2)
       IN  base_x1' = b[1] /\ base_x2' = b[2]
    /\ animation_index' = UpdateAnimation(animation_index)
    /\ last' = "tick"
    /\ ticks' = ticks + 1
    /\ presses' = 0
    /\ hit' = {}
    /\ UNCHANGED <<state, bird_y, bird_velocity, bird_tilt,
                   pipes, score, high_score, npassed>>
TickGameOver ==
    /\ state = "game_over"
    /\ ticks < MaxOverTicks
    /\ LET b == BaseMove(base_x1, base_x2)
       IN  base_x1' = b[1] /\ base_x2' = b[2]
    /\ last' = "tick"
    /\ ticks' = ticks + 1
    /\ presses' = 0
    /\ hit' = {}
    /\ UNCHANGED <<state, bird_y, bird_velocity, bird_tilt, animation_index,
                   pipes, score, high_score, npassed>>

\* "for pipe in remove_pipes: self.pipes.remove(pipe)": list.remove drops
\* the first equal element, once per entry of remove_pipes
RECURSIVE SelectNot(_, _)
SelectNot(s, gone) ==
    IF s = <<>> THEN <<>>
    ELSE IF Head(s) \in gone THEN SelectNot(Tail(s), gone \ {Head(s)})
    ELSE <<Head(s)>> \o SelectNot(Tail(s), gone)

\* "self.high_score = max(self.high_score, self.score)" in the pipe loop,
\* which runs before "self.score += 1"
LoopHighScore(hs, sc, collided) == IF collided THEN Max(hs, sc) ELSE hs

\* "self.high_score = max(self.high_score, self.score)" of the ground check
BadGroundHighScore(hs, sc, grounded) == IF grounded THEN sc ELSE hs
GroundHighScore(hs, sc, grounded) == IF grounded THEN Max(hs, sc) ELSE hs

\* update(), state == "playing"
TickPlaying ==
    /\ state = "playing"
    /\ LET v     == MoveVelocity(bird_velocity)
           y     == bird_y + v
           tilt  == MoveTilt(v, bird_tilt)
           b     == BaseMove(base_x1, base_x2)
           moved == [i \in 1 .. Len(pipes) |-> PipeMove(pipes[i])]
       IN  \E coll \in [1 .. Len(pipes) -> BOOLEAN] :
             /\ \A i \in 1 .. Len(pipes) : coll[i] \in Collide(moved[i], y, tilt)
             /\ LET collided == \E i \in 1 .. Len(pipes) : coll[i]
                    newly    == {i \in 1 .. Len(pipes) : NewlyPassed(moved[i])}
                    marked   == [i \in 1 .. Len(pipes) |->
                                   IF i \in newly
                                   THEN [moved[i] EXCEPT !.passed = TRUE]
                                   ELSE moved[i]]
                    remove   == {marked[i] : i \in {j \in 1 .. Len(pipes) :
                                                      OffScreen(marked[j])}}
                    kept     == SelectNot(marked, remove)
                    add_pipe == newly # {}
                    sc       == IF add_pipe THEN score + 1 ELSE score
                    hs1      == LoopHighScore(high_score, score, collided)
                    grounded == y >= GROUND_Y
               IN  /\ \E g \in GapCenters :
                         pipes' = IF add_pipe
                                  THEN Append(kept, NewPipe(SpawnX(FALSE), g))
                                  ELSE kept
                   /\ score' = sc
                   /\ high_score' = GroundHighScore(hs1, sc, grounded)
                   /\ state' = IF collided \/ grounded THEN "game_over"
                                                       ELSE "playing"
                   /\ bird_y' = IF y < 0 THEN 0 ELSE y
                   /\ bird_velocity' = IF y < 0 THEN 0 ELSE v
                   /\ bird_tilt' = tilt
                   /\ animation_index' = UpdateAnimation(animation_index)
                   /\ base_x1' = b[1] /\ base_x2' = b[2]
                   /\ npassed' = npassed +
                         Cardinality({i \in newly : ~moved[i].passed})
                   /\ hit' = (IF collided THEN {"pipe"} ELSE {})
                               \cup (IF grounded THEN {"ground"} ELSE {})
                   /\ ticks' = IF collided \/ grounded THEN 0
                               ELSE Min(ticks + 1, TickCap)
                   /\ last' = "tick"
                   /\ presses' = 0

FlapPlaying == FlapPlayingAt(KeyTicks(FlapEvery, LastFlapTick))
LiveFlapPlaying == FlapPlayingAt(KeyTicks(LiveFlapEvery, LiveLastFlap))

Flap == FlapStart \/ FlapPlaying \/ FlapGameOver
Tick == TickStart \/ TickPlaying \/ TickGameOver

Next == Flap \/ Tick

Spec == Init /\ [][Next]_vars

\* The run loop calls update() once per iteration, for ever
LiveNext == FlapStart \/ LiveFlapPlaying \/ FlapGameOver \/ Tick
LiveSpec == Init /\ [][LiveNext]_vars /\ WF_vars(Tick)

\* One episode of the run loop, with keys sparse enough for the bird to
\* outlive the first pipe
PassFlapPlaying == FlapPlayingAt(KeyTicks(PassFlapEvery, PassLastFlap))
PassNext == FlapStart \/ PassFlapPlaying \/ Tick
PassSpec == Init /\ [][PassNext]_vars /\ WF_vars(Tick)

\* Long episodes: keys sparse, but arriving long enough for the bird to
\* fly through more than one pipe
LongFlapPlaying == FlapPlayingAt(KeyTicks(LongFlapEvery, LongLastFlap))
LongNext == FlapStart \/ LongFlapPlaying \/ FlapGameOver \/ Tick
LongSpec == Init /\ [][LongNext]_vars

----------------------------------------------------------------------------
\* Properties

\* C1: the phase changes only along start -> playing (by a key),
\* playing -> game_over (by a tick in which a pipe or the ground was hit)
\* and game_over -> start (by a key); a tick never changes the phase in
\* start or game_over and a key never changes it in playing.
C1_PhaseEdges ==
    [][ /\ state # state' =>
            \/ state = "start" /\ state' = "playing" /\ last' = "flap"
            \/ state = "playing" /\ state' = "game_over" /\ last' = "tick"
                 /\ hit' # {}
            \/ state = "game_over" /\ state' = "start" /\ last' = "flap"
        /\ last' = "tick" /\ state \in {"start", "game_over"} => state' = state
        /\ last' = "flap" /\ state = "playing" => state' = state ]_vars

\* C1 witness: a key in game_over has brought the game back to start, after
\* an earlier episode went start -> playing -> game_over with a point scored
C1_Witness == state = "start" /\ last = "flap" /\ high_score >= 1

\* C2: a key handled in start gives playing with velocity JUMP_VELOCITY and
\* tilt MAX_UPWARD_TILT; a key handled in game_over gives start with score 0
\* and velocity 0 (no jump).
C2_KeyDeterminism ==
    [][ /\ last' = "flap" /\ state = "start" =>
            /\ state' = "playing"
            /\ bird_velocity' = JUMP_VELOCITY
            /\ bird_tilt' = MAX_UPWARD_TILT
        /\ last' = "flap" /\ state = "game_over" =>
            /\ state' = "start"
            /\ score' = 0
            /\ bird_velocity' = 0
            /\ bird_tilt' # MAX_UPWARD_TILT ]_vars

\* C2 witness: a key in start has begun a second episode, so both a key in
\* game_over and a key in start have been handled
C2_Witness ==
    state = "playing" /\ last = "flap" /\ ticks = 0 /\ high_score >= 1

\* C3: whenever the phase is game_over, high_score >= score (every collision
\* sets high_score to the maximum of itself and the score of the episode).
C3_HighScoreCoversScore == state = "game_over" => high_score >= score

\* C4: within an episode the score never decreases; a tick in playing
\* changes it by 0 or +1, by +1 exactly when a pipe is marked passed in that
\* tick; and the score is the number of pipes marked passed since the last
\* reset, so no pipe counts twice.
C4_ScoreCountsPasses ==
    /\ [](score = npassed)
    /\ [][ state = "playing" /\ state' # "start" => score' >= score ]_vars
    /\ [][ last' = "tick" /\ state = "playing" =>
             /\ score' - score \in {0, 1}
             /\ score' = score + 1 <=> npassed' = npassed + 1
             /\ score' = score <=> npassed' = npassed ]_vars

\* C4 witness: a pipe was passed, scored, and has since stayed in the live
\* list, left of the bird, for further ticks without scoring again
C4_Witness ==
    /\ state = "playing" /\ last = "tick" /\ score = 1
    /\ Len(pipes) = 2 /\ pipes[1].passed /\ pipes[1].x < 0

\* C5: the bird's velocity never exceeds MAX_DESCENT_SPEED.
C5_VelocityClamp == bird_velocity <= MAX_DESCENT_SPEED

\* C5 witness: a move during which the clamp was active
C5_Witness ==
    state = "playing" /\ last = "tick" /\ bird_velocity = MAX_DESCENT_SPEED

\* C6: the tilt stays in [MAX_DOWNWARD_TILT, MAX_UPWARD_TILT]; a move that
\* leaves a negative velocity sets it to MAX_UPWARD_TILT, any other move
\* lowers it by TILT_VELOCITY, not below MAX_DOWNWARD_TILT.
C6_TiltClamp ==
    /\ [](bird_tilt >= MAX_DOWNWARD_TILT /\ bird_tilt <= MAX_UPWARD_TILT)
    /\ [][ last' = "tick" /\ state = "playing" =>
             LET v == IF bird_velocity + GRAVITY < MAX_DESCENT_SPEED
                      THEN bird_velocity + GRAVITY ELSE MAX_DESCENT_SPEED
             IN  bird_tilt' =
                   IF v < 0 THEN MAX_UPWARD_TILT
                   ELSE IF bird_tilt - TILT_VELOCITY > MAX_DOWNWARD_TILT
                        THEN bird_tilt - TILT_VELOCITY
                        ELSE MAX_DOWNWARD_TILT ]_vars

\* C6 witness: a move at the floor of the tilt
C6_Witness ==
    state = "playing" /\ last = "tick" /\ bird_tilt = MAX_DOWNWARD_TILT

\* C7: every live pipe has both segments at least MIN_SEGMENT long without
\* the clamp, so the segment lengths border the gap exactly.
C7_GapValidity ==
    \A i \in 1 .. Len(pipes) :
        LET g == pipes[i].gap_center
        IN  /\ g - PIPE_GAP \div 2 >= MIN_SEGMENT
            /\ PLAYABLE_HEIGHT - (g + PIPE_GAP \div 2) >= MIN_SEGMENT
            /\ TopLength(g) = g - PIPE_GAP \div 2
            /\ BottomLength(g) = PLAYABLE_HEIGHT - (g + PIPE_GAP \div 2)

\* C7 witness: an initial pipe and a later one are live, drawn at the two
\* ends of the random range
C7_Witness ==
    /\ Len(pipes) = 2
    /\ {pipes[1].gap_center, pipes[2].gap_center} = {min_center, max_center}

\* C8: the two ground offsets are always exactly half a strip apart:
\* x2 - x1 is congruent to HALF_STRIP modulo the strip width.
C8_GroundSeamless ==
    /\ Abs(base_x2 - base_x1) = HALF_STRIP
    /\ (base_x2 - base_x1) % (2 * HALF_STRIP) = HALF_STRIP

\* C8 witness: a Base.move() after the first offset has wrapped around
C8_Witness == last = "tick" /\ base_x1 > base_x2

\* C9: a tick in start leaves the phase, the score (0), the bird's velocity
\* (0), y and tilt, the pipes and the high score unchanged; the ground
\* offsets and the animation index change.
C9_StartTickFrame ==
    [][ last' = "tick" /\ state = "start" =>
          /\ state' = "start"
          /\ score' = 0 /\ score = 0
          /\ bird_velocity' = 0 /\ bird_velocity = 0
          /\ bird_y' = bird_y
          /\ bird_tilt' = bird_tilt
          /\ pipes' = pipes
          /\ high_score' = high_score
          /\ animation_index' # animation_index
          /\ base_x1' # base_x1 /\ base_x2' # base_x2 ]_vars

\* C9 witness: several ticks were taken in start with no key
C9_Witness == state = "start" /\ last = "tick" /\ ticks = MaxStartTicks

\* C10: once the phase is playing and the keys stop, the phase eventually
\* becomes game_over, and then high_score >= score.
C10_EventuallyGameOver ==
    /\ (state = "playing") ~> (state = "game_over")
    /\ [][ state = "playing" /\ state' = "game_over" =>
             high_score' >= score' ]_vars

\* Pipes taken out of the live list since the last reset(): reset() spawns
\* one pipe and every pass spawns one more.
Removed == 1 + npassed - Len(pipes)

\* C11: while the phase stays playing and update() keeps running, the n-th
\* pipe of the episode is eventually passed and, strictly later, removed.
\* A playing tick that brings an unpassed pipe's right edge left of the
\* bird's x marks it passed and adds exactly 1 to the score; an unpassed pipe
\* never lingers left of the bird; every pipe either survives the tick,
\* moved left by the pipe speed, or was already marked passed before the
\* tick and is now further left than -width.
C11_PipeLifecycle ==
    /\ \A n \in 1 .. MaxPipes :
         /\ (state = "playing" /\ npassed + 1 >= n)
              ~> (state # "playing" \/ npassed >= n)
         /\ (state = "playing" /\ npassed >= n)
              ~> (state # "playing" \/ Removed >= n)
    /\ [](\A i \in 1 .. Len(pipes) :
            ~pipes[i].passed => Right(TopRect(pipes[i])) >= BIRD_X)
    /\ [][ last' = "tick" /\ state = "playing" =>
             \A i \in 1 .. Len(pipes) :
               LET x1 == pipes[i].x - PIPE_SPEED
                   r1 == Trunc(x1, XS) + PIPE_WIDTH \div 2
               IN  /\ ~pipes[i].passed /\ r1 < BIRD_X =>
                         /\ score' = score + 1
                         /\ \E j \in 1 .. Len(pipes') :
                              pipes'[j].x = x1 /\ pipes'[j].passed
                   /\ \/ \E j \in 1 .. Len(pipes') :
                           /\ pipes'[j].x = x1
                           /\ pipes'[j].gap_center = pipes[i].gap_center
                      \/ pipes[i].passed /\ r1 < -PIPE_WIDTH ]_vars

\* C11 witness: the first pipe was passed, scored and later removed while
\* the phase stayed playing
C11_Witness ==
    /\ state = "playing" /\ last = "tick"
    /\ score = 1 /\ npassed = 1 /\ Len(pipes) = 1 /\ ~pipes[1].passed

\* C12: high_score and score are never negative; no step lowers high_score
\* and reset() leaves it unchanged; the score is 0 after every reset(), the
\* one of the constructor included.
C12_ScoreRanges ==
    /\ [](high_score >= 0 /\ score >= 0)
    /\ [](last = "init" => score = 0 /\ high_score = 0)
    /\ [][ high_score' >= high_score ]_vars
    /\ [][ last' = "flap" /\ state = "game_over" =>
             score' = 0 /\ high_score' = high_score ]_vars

\* C12 witness: a second episode has ended with a score below the high
\* score that the first episode left
C12_Witness ==
    state = "game_over" /\ last = "tick" /\ score = 0 /\ high_score = 1

\* C13: an update() in game_over moves the ground offsets and changes
\* nothing else: bird, pipes, score, high score and phase stay as they are.
C13_GameOverTickFrame ==
    [][ last' = "tick" /\ state = "game_over" =>
          /\ state' = "game_over"
          /\ bird_y' = bird_y
          /\ bird_velocity' = bird_velocity
          /\ bird_tilt' = bird_tilt
          /\ animation_index' = animation_index
          /\ pipes' = pipes
          /\ score' = score
          /\ high_score' = high_score
          /\ base_x1' # base_x1 /\ base_x2' # base_x2 ]_vars

\* C13 witness: an update() ran in game_over, with two pipes frozen in place
C13_Witness ==
    state = "game_over" /\ last = "tick" /\ ticks = MaxOverTicks
      /\ Len(pipes) = 2

\* C14: whenever two or more pipes are live, each is PIPE_DISTANCE to the
\* right of the pipe spawned before it.
C14_ConstantSpacing ==
    \A i \in 1 .. (Len(pipes) - 1) :
        pipes[i + 1].x - pipes[i].x = PIPE_DISTANCE * XS

\* C15 as claimed: every update(), in each of the three phases, advances
\* the animation index by one modulo ANIMATION_TIME * FRAME_COUNT, and the
\* displayed frame animation_index // ANIMATION_TIME is 0, 1 or 2.
C15_AnimationEveryTick ==
    /\ [](animation_index \div ANIMATION_TIME \in 0 .. (FRAME_COUNT - 1))
    /\ [][ last' = "tick" =>
             animation_index' =
               (animation_index + 1) % (ANIMATION_TIME * FRAME_COUNT) ]_vars

\* C15 as amended: an update() in start or playing advances the animation
\* index by one modulo ANIMATION_TIME * FRAME_COUNT, an update() in game_over
\* leaves it unchanged, a key never changes it except that reset() sets it to
\* 0, and the displayed frame is always 0, 1 or 2.
C15_AnimationStartPlaying ==
    /\ [](animation_index \div ANIMATION_TIME \in 0 .. (FRAME_COUNT - 1))
    /\ [][ last' = "tick" /\ state \in {"start", "playing"} =>
             animation_index' =
               (animation_index + 1) % (ANIMATION_TIME * FRAME_COUNT) ]_vars
    /\ [][ last' = "tick" /\ state = "game_over" =>
             animation_index' = animation_index ]_vars
    /\ [][ last' = "flap" =>
             animation_index' =
               IF state = "game_over" THEN 0 ELSE animation_index ]_vars

\* C15 witness: the index has wrapped from 14 to 0 in a playing tick that
\* followed ticks in start, so it advanced through both phases
C15_Witness ==
    /\ state = "playing" /\ last = "tick" /\ animation_index = 0
    /\ ticks = ANIMATION_TIME * FRAME_COUNT - 1

\* C16: no live pipe has its right edge left of -width; a playing tick
\* removes exactly the pipes that are there after moving, and keeps all the
\* others; no other step than reset() changes the list of pipes.
C16_OffScreenRemoved ==
    /\ [](\A i \in 1 .. Len(pipes) :
            Trunc(pipes[i].x, XS) + PIPE_WIDTH \div 2 >= -PIPE_WIDTH)
    /\ [][ last' = "tick" /\ state = "playing" =>
             \A i \in 1 .. Len(pipes) :
               LET x1 == pipes[i].x - PIPE_SPEED
                   r1 == Trunc(x1, XS) + PIPE_WIDTH \div 2
               IN  r1 < -PIPE_WIDTH <=>
                     ~\E j \in 1 .. Len(pipes') :
                         /\ pipes'[j].x = x1
                         /\ pipes'[j].gap_center = pipes[i].gap_center ]_vars
    /\ [][ last' = "tick" /\ state # "playing" => pipes' = pipes ]_vars
    /\ [][ last' = "flap" /\ state # "game_over" => pipes' = pipes ]_vars

\* C16 witness: the first pipe has just been removed, 46 ticks after it was
\* passed, and the pipe spawned at the pass is the only live one
C16_Witness ==
    /\ last = "tick" /\ Removed = 1 /\ Len(pipes) = 1
    /\ pipes[1].x = SpawnX(FALSE) - 46 * PIPE_SPEED

\* C17: the bird's y is never negative; a playing tick whose move would
\* leave y < 0 ends with y = 0 and velocity 0, any other ends with the moved
\* y and velocity; and while the phase is playing, y is below
\* PLAYABLE_HEIGHT - height // 2.
C17_VerticalRange ==
    /\ [](bird_y >= 0)
    /\ [](state = "playing" =>
            bird_y < (PLAYABLE_HEIGHT - BIRD_HEIGHT \div 2) * YS)
    /\ [][ last' = "tick" /\ state = "playing" =>
             LET v == IF bird_velocity + GRAVITY < MAX_DESCENT_SPEED
                      THEN bird_velocity + GRAVITY ELSE MAX_DESCENT_SPEED
                 y == bird_y + v
             IN  IF y < 0 THEN bird_y' = 0 /\ bird_velocity' = 0
                          ELSE bird_y' = y /\ bird_velocity' = v ]_vars

\* C17 witness: a playing tick has clamped the bird at the top of the window
C17_Witness ==
    state = "playing" /\ last = "tick" /\ bird_y = 0 /\ bird_velocity = 0

\* C18: a key handled in start or playing gives playing with velocity
\* JUMP_VELOCITY and tilt MAX_UPWARD_TILT and changes nothing else; and a
\* further key in the same call of handle_events() changes nothing at all,
\* so k keys leave the game as one key does.
C18_FlapIdempotent ==
    /\ [][ last' = "flap" /\ state \in {"start", "playing"} =>
             /\ state' = "playing"
             /\ bird_velocity' = JUMP_VELOCITY
             /\ bird_tilt' = MAX_UPWARD_TILT
             /\ UNCHANGED <<bird_y, animation_index, base_x1, base_x2,
                            pipes, score, high_score>> ]_vars
    /\ [][ last' = "flap" /\ presses >= 1 /\ state = "playing" =>
             UNCHANGED <<state, bird_y, bird_velocity, bird_tilt,
                         animation_index, base_x1, base_x2, pipes, score,
                         high_score>> ]_vars

\* C18 witness: two keys were handled in one call of handle_events() after
\* some ticks of play
C18_Witness ==
    /\ state = "playing" /\ last = "flap" /\ presses = 2 /\ ticks > 0
    /\ bird_velocity = JUMP_VELOCITY /\ bird_tilt = MAX_UPWARD_TILT

\* The state reset() leaves, high_score apart
AfterReset ==
    /\ state = "start"
    /\ score = 0
    /\ Len(pipes) = 1
    /\ pipes[1].x = WINDOW_WIDTH * XS
    /\ ~pipes[1].passed
    /\ pipes[1].gap_center \in
         (PIPE_GAP \div 2 + 60) .. (PLAYABLE_HEIGHT - PIPE_GAP \div 2 - 60)
    /\ bird_y = (WINDOW_HEIGHT \div 2) * YS
    /\ bird_velocity = 0
    /\ bird_tilt = 0
    /\ animation_index = 0
    /\ base_x1 = 0
    /\ base_x2 = 400 * XS

\* C19: reset(), at construction and on a key in game_over, leaves one
\* unpassed pipe at x = WINDOW_WIDTH, the bird at its initial position with
\* velocity, tilt and animation index 0, the ground offsets 0 and 400,
\* score 0 and phase start; it does not change high_score.
C19_ResetState ==
    /\ [](last = "init" => AfterReset /\ high_score = 0)
    /\ [][ last' = "flap" /\ state = "game_over" =>
             AfterReset' /\ high_score' = high_score ]_vars

\* C19 witness: reset() ran on a key in game_over, after an episode that had
\* moved the bird, the ground and two pipes and had set the high score
C19_Witness ==
    /\ state = "start" /\ last = "flap" /\ presses = 1 /\ ticks = 0
    /\ high_score = 1 /\ Len(pipes) = 1 /\ base_x1 = 0

\* C20: in every state the live list holds one or two pipes, the last of
\* them unpassed and any other passed; a playing tick marks at most one
\* pipe passed, adds to the score the number of pipes it marks, and spawns
\* that many pipes.
C20_OneUnpassed ==
    /\ [](/\ Len(pipes) \in 1 .. 2
          /\ ~pipes[Len(pipes)].passed
          /\ \A i \in 1 .. (Len(pipes) - 1) : pipes[i].passed)
    /\ [][ last' = "tick" /\ state = "playing" =>
             LET passes ==
                   Cardinality(
                     {i \in 1 .. Len(pipes) :
                        /\ ~pipes[i].passed
                        /\ Trunc(pipes[i].x - PIPE_SPEED, XS)
                             + PIPE_WIDTH \div 2 < WINDOW_WIDTH \div 4})
                 spawned ==
                   Cardinality(
                     {j \in 1 .. Len(pipes') :
                        pipes'[j].x = (WINDOW_WIDTH + PIPE_DISTANCE) * XS})
             IN  /\ passes <= 1
                 /\ score' = score + passes
                 /\ spawned = passes ]_vars

\* C20 witness: the second pipe has just been passed and the third spawned,
\* after the first was removed: two pipes are live, one of them unpassed
C20_Witness ==
    /\ last = "tick" /\ score = 2 /\ Len(pipes) = 2
    /\ pipes[1].passed /\ ~pipes[2].passed
    /\ pipes[2].x = SpawnX(FALSE)

====
